---- MODULE Spec2Model ----
(***************************************************************************)
(* The per-host IPMI session registry of datacenter-api (pool.go) and the  *)
(* request handlers that use it (getHostState, getHosts, getHost, putHost).*)
(*                                                                         *)
(* Every request goroutine is a process.  ClientSet.Get is modelled step   *)
(* by step: cs.mu.Lock() with the lookup in cs.pools, the creation of the  *)
(* pool, and the call p.Get() on the github.com/silenceper/pool channel    *)
(* pool that pool.go configures (its non-blocking select on the idle       *)
(* channel, its capacity check under the pool's own lock, the factory      *)
(* call, the wait on a connection request), then the deferred Unlock.      *)
(* Time is the age, in seconds, of the values that carry a timestamp.      *)
(***************************************************************************)
EXTENDS Naturals, Sequences, FiniteSets

\* ------------------------------------------------------------------ bounds

\* Calls of cs.Get that the requests accepted over a run may make.
MaxGets == 3

\* Seconds that pass in one step of the clock.
TickStep == 15

\* The longest acquire window the claims about a bounded wait are tried with.
AcquireWindow == 15

\* ------------------------------------------------- the program's constants

InitialCap == 0

MaxIdle == 1

\* A capacity one above the idle limit.
MaxCapTwo == MaxIdle + 1

MaxCap == 1

IdleTimeout == 15

\* The request goroutines gin runs concurrently.
Proc == {1, 2, 3}

\* cfg.Host: the configured hostnames.
Host == {"a", "b"}

\* What :hostname of a request can be: a configured host or another name.
Name == Host \cup {"x"}

NoProc == 0

\* The zero ClientHandle{} and the absent idle connection.
NoHandle == [client |-> 0, name |-> "", gen |-> 0]

NoConn == [conn |-> 0, age |-> 0]

\* The HostCommand bodies: which of Power and PowerRestorePolicy is set.
Command == [policy : BOOLEAN, power : BOOLEAN]

VARIABLES
    pc,           \* where each request goroutine is
    handler,      \* the handler it runs: "getHost", "getHosts", "putHost"
    target,       \* hostname, the argument of cs.Get
    todo,         \* getHosts: the hostnames of cfg.Host not yet visited
    mu,           \* cs.mu: the goroutine that holds it, or NoProc
    pools,        \* cs.pools: per name, 0 (absent) or the pool object's number
    lp,           \* Get's local p: the number of the pool object it uses
    conns,        \* per pool: the idle channel (chan *idleConn, cap MaxIdle)
    openingConns, \* per pool: the count of connections the pool has open
    connReqs,     \* per pool: the queue of connection requests
    pmu,          \* per pool: the goroutine holding the pool's own lock
    req,          \* per goroutine: its request channel (buffered, 1)
    handle,       \* per goroutine: the ClientHandle it holds
    nextSess,     \* the number the next *ipmi.Client gets
    connected,    \* the clients whose connection is open
    dropped,      \* the client the pool discarded last, 0 when none yet
    factoryCalled,\* the names whose factory closure has been invoked
    created,      \* per name: how many pools NewChannelPool made for it
    waitOrder,    \* the goroutines blocked inside cs.Get, oldest first
    waitAge,      \* per goroutine: seconds spent on its request channel
    calls         \* calls of cs.Get the accepted requests make

vars == <<pc, handler, target, todo, mu, pools, lp, conns, openingConns,
          connReqs, pmu, req, handle, nextSess, connected, dropped,
          factoryCalled, created, waitOrder, waitAge, calls>>

reqVars == <<handler, todo, calls>>
regVars == <<mu, pools, created, lp>>
poolVars == <<conns, openingConns, connReqs, pmu, req>>
sessVars == <<nextSess, connected, dropped, factoryCalled>>
getVars == <<handle, waitOrder, waitAge>>

Remove(s, e) == SelectSeq(s, LAMBDA x : x # e)

Init ==
    /\ pc = [p \in Proc |-> "idle"]
    /\ handler = [p \in Proc |-> "none"]
    /\ target = [p \in Proc |-> ""]
    /\ todo = [p \in Proc |-> {}]
    /\ mu = NoProc
    /\ pools = [n \in Name |-> 0]
    /\ lp = [p \in Proc |-> 0]
    /\ conns = [n \in Name |-> <<>>]
    /\ openingConns = [n \in Name |-> 0]
    /\ connReqs = [n \in Name |-> <<>>]
    /\ pmu = [n \in Name |-> NoProc]
    /\ req = [p \in Proc |-> NoConn]
    /\ handle = [p \in Proc |-> NoHandle]
    /\ nextSess = 1
    /\ connected = {}
    /\ dropped = 0
    /\ factoryCalled = {}
    /\ created = [n \in Name |-> 0]
    /\ waitOrder = <<>>
    /\ waitAge = [p \in Proc |-> 0]
    /\ calls = 0

\* ------------------------------------------------------------ ClientSet.Get

MuFreeNoExclusion == TRUE

\* cs.mu is free: Lock() returns only then.
MuFree == mu = NoProc

\* cs.mu.Lock() on entry of cs.Get(n): the caller takes the lock, and reads
\* p, ok := cs.pools[hostname] with it held, or blocks on it.
Get_Lock(p, n) ==
    /\ target' = [target EXCEPT ![p] = n]
    /\ IF MuFree
       THEN /\ mu' = p
            /\ lp' = [lp EXCEPT ![p] = pools[n]]
            /\ pc' = [pc EXCEPT ![p] = IF pools[n] # 0 THEN "select" ELSE "create"]
            /\ UNCHANGED waitOrder
       ELSE /\ waitOrder' = Append(waitOrder, p)
            /\ pc' = [pc EXCEPT ![p] = "lockwait"]
            /\ UNCHANGED <<mu, lp>>
    /\ UNCHANGED <<pools, created, poolVars, sessVars, handle, waitAge>>

\* A goroutine blocked in Lock() gets the lock. sync.Mutex promises no order
\* among the blocked goroutines, and a newcomer may take a free lock first.
Get_LockWake(p) ==
    /\ pc[p] = "lockwait"
    /\ MuFree
    /\ mu' = p
    /\ lp' = [lp EXCEPT ![p] = pools[target[p]]]
    /\ pc' = [pc EXCEPT ![p] = IF pools[target[p]] # 0 THEN "select" ELSE "create"]
    /\ UNCHANGED <<reqVars, target, pools, created, poolVars, sessVars, getVars>>

\* ------------------------------------------------------- the HTTP handlers

\* gin serves each request on a goroutine of its own; which one is immaterial,
\* so an accepted request goes to the first goroutine that is free.
Free(p) == pc[p] = "idle" /\ \A q \in Proc : q < p => pc[q] # "idle"

\* router.GET("/host/:hostname", getHost(cs)): getHostState on the parameter,
\* which starts with cs.Get(hostname).
StartGetHost(p, n) ==
    /\ Free(p)
    /\ calls < MaxGets
    /\ calls' = calls + 1
    /\ handler' = [handler EXCEPT ![p] = "getHost"]
    /\ Get_Lock(p, n)
    /\ UNCHANGED todo

\* router.GET("/hosts", getHosts(config, cs)): the loop over cfg.Host starts.
StartGetHosts(p) ==
    /\ Free(p)
    /\ calls + Cardinality(Host) <= MaxGets
    /\ calls' = calls + Cardinality(Host)
    /\ handler' = [handler EXCEPT ![p] = "getHosts"]
    /\ todo' = [todo EXCEPT ![p] = Host]
    /\ pc' = [pc EXCEPT ![p] = "loop"]
    /\ UNCHANGED <<target, regVars, poolVars, sessVars, getVars>>

\* for hostname := range cfg.Host { state, _ := getHostState(ctx, cs, hostname) }:
\* Go visits the map in no fixed order; after the last host the request ends.
GetHostsLoop(p) ==
    /\ pc[p] = "loop"
    /\ IF todo[p] = {}
       THEN /\ pc' = [pc EXCEPT ![p] = "idle"]
            /\ handler' = [handler EXCEPT ![p] = "none"]
            /\ UNCHANGED <<todo, calls, target, regVars, poolVars, sessVars, getVars>>
       ELSE \E h \in todo[p] :
                /\ todo' = [todo EXCEPT ![p] = @ \ {h}]
                /\ Get_Lock(p, h)
                /\ UNCHANGED <<handler, calls>>

\* router.PUT("/host/:hostname", putHost(cs)): a body that does not bind ends
\* the request before any cs.Get; else cs.Get(hostname) is called.
StartPutHost(p, n, bound) ==
    /\ Free(p)
    /\ calls < MaxGets
    /\ IF bound
       THEN /\ calls' = calls + 1
            /\ handler' = [handler EXCEPT ![p] = "putHost"]
            /\ Get_Lock(p, n)
            /\ UNCHANGED todo
       ELSE UNCHANGED vars

\* getHostState or putHost returns: getHosts goes on with the next host, the
\* other handlers end the request.
Return(p) ==
    /\ pc' = [pc EXCEPT ![p] = IF handler[p] = "getHosts" THEN "loop" ELSE "idle"]
    /\ handler' = [handler EXCEPT ![p] = IF @ = "getHosts" THEN @ ELSE "none"]
    /\ target' = [target EXCEPT ![p] = ""]
    /\ lp' = [lp EXCEPT ![p] = 0]
    /\ UNCHANGED <<todo, calls>>

\* ---------------------------------------------------- ClientSet.Get, go on

\* pool.NewChannelPool rejects a Config whose capacities are inconsistent.
ValidConfig == InitialCap <= MaxIdle /\ MaxCap >= MaxIdle /\ InitialCap >= 0

\* The first statement of the handler's body once cs.Get has returned a
\* handle; c tells which fields of putHost's HostCommand are set.
BodyStart(p, c) ==
    IF handler[p] = "putHost"
    THEN IF c.policy THEN "policy"
         ELSE IF c.power THEN "power" ELSE "defer"
    ELSE "chassis"

\* return ClientHandle{v.(*ipmi.Client), p}, nil with the deferred cs.mu.Unlock().
GetReturnOk(p, s, c) ==
    /\ handle' = [handle EXCEPT ![p] = [client |-> s, name |-> target[p], gen |-> lp[p]]]
    /\ mu' = NoProc
    /\ waitOrder' = Remove(waitOrder, p)
    /\ waitAge' = [waitAge EXCEPT ![p] = 0]
    /\ pc' = [pc EXCEPT ![p] = BodyStart(p, c)]
    /\ UNCHANGED <<reqVars, target, lp>>

\* return ClientHandle{}, err with the deferred cs.mu.Unlock(): the handler
\* returns on the error before its defer cs.Put(client) is reached.
GetReturnErr(p) ==
    /\ handle' = [handle EXCEPT ![p] = NoHandle]
    /\ mu' = NoProc
    /\ waitOrder' = Remove(waitOrder, p)
    /\ waitAge' = [waitAge EXCEPT ![p] = 0]
    /\ Return(p)

\* poolConfig := &pool.Config{...}; p, err = pool.NewChannelPool(poolConfig);
\* cs.pools[hostname] = p. With InitialCap = 0 the new pool opens nothing.
Get_Create(p) ==
    /\ pc[p] = "create"
    /\ IF ValidConfig
       THEN /\ created' = [created EXCEPT ![target[p]] = @ + 1]
            /\ pools' = [pools EXCEPT ![target[p]] = created[target[p]] + 1]
            /\ lp' = [lp EXCEPT ![p] = created[target[p]] + 1]
            /\ conns' = [conns EXCEPT ![target[p]] = <<>>]
            /\ openingConns' = [openingConns EXCEPT ![target[p]] = InitialCap]
            /\ connReqs' = [connReqs EXCEPT ![target[p]] = <<>>]
            /\ pc' = [pc EXCEPT ![p] = "select"]
            /\ UNCHANGED <<reqVars, target, mu, getVars>>
       ELSE /\ GetReturnErr(p)
            /\ UNCHANGED <<created, pools, conns, openingConns, connReqs>>
    /\ UNCHANGED <<pmu, req, sessVars>>

\* ------------------------------------- p.Get(): the channel pool's Get loop

\* wrapConn.t.Add(timeout).Before(time.Now()), checked when timeout > 0.
Expired(w) == IdleTimeout > 0 /\ w.age > IdleTimeout

\* Close: func(v interface{}) error { return nil }: the client stays connected
\* (the Close that would disconnect it is commented out in pool.Config).
CloseCallback(s) == connected

\* c.Close(conn): under the pool's lock the count of open connections drops
\* and the Close callback runs; the pool forgets the connection.
PoolClose(n, s) ==
    /\ pmu[n] = NoProc
    /\ openingConns' = [openingConns EXCEPT ![n] = @ - 1]
    /\ connected' = CloseCallback(s)
    /\ dropped' = s

\* select { case wrapConn := <-conns: ... default: ... }: an idle connection
\* is taken if one is there; past its idle time it is closed and the loop
\* starts over, else it is returned.
PoolGet_Select(p, c) ==
    /\ pc[p] = "select"
    /\ IF Len(conns[target[p]]) > 0
       THEN /\ conns' = [conns EXCEPT ![target[p]] = Tail(@)]
            /\ IF Expired(Head(conns[target[p]]))
               THEN /\ PoolClose(target[p], Head(conns[target[p]]).conn)
                    /\ UNCHANGED <<pc, reqVars, target, lp, mu, getVars>>
               ELSE /\ GetReturnOk(p, Head(conns[target[p]]).conn, c)
                    /\ UNCHANGED <<openingConns, connected, dropped>>
       ELSE /\ pc' = [pc EXCEPT ![p] = "default"]
            /\ UNCHANGED <<conns, openingConns, connected, dropped, reqVars, target,
                           lp, mu, getVars>>
    /\ UNCHANGED <<pools, created, connReqs, pmu, req, nextSess, factoryCalled>>

\* c.openingConns >= c.maxActive
AtCapacity(n) == openingConns[n] >= MaxCap

\* default: c.mu.Lock(); at capacity the caller queues a request and waits on
\* it; below capacity it calls the factory, still holding the pool's lock.
PoolGet_Default(p) ==
    /\ pc[p] = "default"
    /\ pmu[target[p]] = NoProc
    /\ IF AtCapacity(target[p])
       THEN /\ connReqs' = [connReqs EXCEPT ![target[p]] = Append(@, p)]
            /\ waitOrder' = IF \E i \in 1..Len(waitOrder) : waitOrder[i] = p
                            THEN waitOrder ELSE Append(waitOrder, p)
            /\ pc' = [pc EXCEPT ![p] = "waitreq"]
            /\ UNCHANGED <<pmu, factoryCalled>>
       ELSE /\ pmu' = [pmu EXCEPT ![target[p]] = p]
            /\ factoryCalled' = factoryCalled \cup {target[p]}
            /\ pc' = [pc EXCEPT ![p] = "factory"]
            /\ UNCHANGED <<connReqs, waitOrder>>
    /\ UNCHANGED <<reqVars, target, regVars, conns, openingConns, req, nextSess,
                   connected, dropped, handle, waitAge>>

\* The closure clientFactory returns: an unknown hostname is an error; else
\* ipmi.NewClient and client.Connect either fail or give a connected client.
\* Back in the pool's Get: c.openingConns++ on success, then c.mu.Unlock().
Factory(p, ok, c) ==
    /\ pc[p] = "factory"
    /\ pmu' = [pmu EXCEPT ![target[p]] = NoProc]
    /\ IF target[p] \notin Host \/ ~ok
       THEN /\ GetReturnErr(p)
            /\ UNCHANGED <<nextSess, connected, openingConns>>
       ELSE /\ nextSess' = nextSess + 1
            /\ connected' = connected \cup {nextSess}
            /\ openingConns' = [openingConns EXCEPT ![target[p]] = @ + 1]
            /\ GetReturnOk(p, nextSess, c)
    /\ UNCHANGED <<pools, created, conns, connReqs, req, dropped, factoryCalled>>

\* ret, ok := <-req: the connection a Put handed over arrives; past its idle
\* time it is closed and the loop starts over, else it is returned.
PoolGet_Recv(p, c) ==
    /\ pc[p] = "waitreq"
    /\ req[p] # NoConn
    /\ req' = [req EXCEPT ![p] = NoConn]
    /\ IF Expired(req[p])
       THEN /\ PoolClose(target[p], req[p].conn)
            /\ pc' = [pc EXCEPT ![p] = "select"]
            /\ waitAge' = [waitAge EXCEPT ![p] = 0]
            /\ UNCHANGED <<reqVars, target, lp, mu, handle, waitOrder>>
       ELSE /\ GetReturnOk(p, req[p].conn, c)
            /\ UNCHANGED <<openingConns, connected, dropped>>
    /\ UNCHANGED <<pools, created, conns, connReqs, pmu, nextSess, factoryCalled>>

\* --------------------------------------------- the handlers' use of a handle

\* handle.p.Put(handle.Client): under the pool's lock the oldest connection
\* request gets the connection; with none waiting it goes to the idle channel,
\* or is closed when the channel is full.
PoolPut(n, s) ==
    /\ pmu[n] = NoProc
    /\ IF Len(connReqs[n]) > 0
       THEN /\ req' = [req EXCEPT ![Head(connReqs[n])] = [conn |-> s, age |-> 0]]
            /\ connReqs' = [connReqs EXCEPT ![n] = Tail(@)]
            /\ UNCHANGED <<conns, openingConns, connected, dropped>>
       ELSE IF Len(conns[n]) < MaxIdle
            THEN /\ conns' = [conns EXCEPT ![n] = Append(@, [conn |-> s, age |-> 0])]
                 /\ UNCHANGED <<req, connReqs, openingConns, connected, dropped>>
            ELSE /\ PoolClose(n, s)
                 /\ UNCHANGED <<req, connReqs, conns>>

\* func (cs *ClientSet) Put(handle ClientHandle): cs.mu is not taken.
Put(p) ==
    /\ PoolPut(handle[p].name, handle[p].client)
    /\ handle' = [handle EXCEPT ![p] = NoHandle]

PutOnErrorReturnMissing == FALSE

\* defer cs.Put(client) also runs on the early return after an IPMI error.
PutOnErrorReturn == TRUE

\* The handler function returns: its deferred cs.Put(client) runs.
Exit(p, deferred) ==
    /\ Return(p)
    /\ IF deferred
       THEN Put(p)
       ELSE UNCHANGED <<conns, openingConns, connReqs, req, connected, dropped, handle>>
    /\ UNCHANGED <<mu, pools, created, pmu, nextSess, factoryCalled, waitOrder, waitAge>>

\* chassis, err := client.GetChassisStatus(ctx) in getHostState, then return.
GetChassisStatus(p, ok) ==
    /\ pc[p] = "chassis"
    /\ Exit(p, ok \/ PutOnErrorReturn)

\* _, err := client.SetPowerRestorePolicy(ctx, policy) in putHost: on an
\* error return; else go on to command.Power, or return when it is nil.
SetPowerRestorePolicy(p, ok, c) ==
    /\ pc[p] = "policy"
    /\ IF ok /\ c.power
       THEN /\ pc' = [pc EXCEPT ![p] = "power"]
            /\ UNCHANGED <<reqVars, target, regVars, poolVars, sessVars, getVars>>
       ELSE Exit(p, ok \/ PutOnErrorReturn)

\* _, err := client.ChassisControl(ctx, cmd) in putHost, then return.
ChassisControl(p, ok) ==
    /\ pc[p] = "power"
    /\ Exit(p, ok \/ PutOnErrorReturn)

\* putHost with neither field set: the body ends at once.
EmptyCommand(p) ==
    /\ pc[p] = "defer"
    /\ Exit(p, TRUE)

\* ------------------------------------------------------------------- time

\* An age grows until it is past the limit it is compared with.
Aged(age, limit) == IF age > limit THEN age ELSE age + TickStep

Older(w) == IF w = NoConn THEN w ELSE [w EXCEPT !.age = Aged(@, IdleTimeout)]

\* TickStep seconds pass: every timestamped connection and every wait on a
\* request channel grows older (an age stops at its first value past the limit).
Tick ==
    /\ conns' = [n \in Name |-> [i \in 1..Len(conns[n]) |-> Older(conns[n][i])]]
    /\ req' = [p \in Proc |-> Older(req[p])]
    /\ waitAge' = [p \in Proc |-> IF pc[p] = "waitreq"
                                  THEN Aged(waitAge[p], AcquireWindow)
                                  ELSE waitAge[p]]
    /\ <<conns', req', waitAge'>> # <<conns, req, waitAge>>
    /\ UNCHANGED <<pc, reqVars, target, regVars, openingConns, connReqs, pmu, sessVars,
                   handle, waitOrder>>

\* ---------------------------------------------------------- specifications

\* One step of request goroutine p inside its handler.
Step(p) ==
    \/ GetHostsLoop(p)
    \/ Get_LockWake(p)
    \/ Get_Create(p)
    \/ \E c \in Command : PoolGet_Select(p, c)
    \/ PoolGet_Default(p)
    \/ \E ok \in BOOLEAN, c \in Command : Factory(p, ok, c)
    \/ \E c \in Command : PoolGet_Recv(p, c)
    \/ \E ok \in BOOLEAN : GetChassisStatus(p, ok)
    \/ \E ok \in BOOLEAN, c \in Command : SetPowerRestorePolicy(p, ok, c)
    \/ \E ok \in BOOLEAN : ChassisControl(p, ok)
    \/ EmptyCommand(p)

Next ==
    \/ \E p \in Proc, n \in Name : StartGetHost(p, n)
    \/ \E p \in Proc : StartGetHosts(p)
    \/ \E p \in Proc, n \in Name, bound \in BOOLEAN : StartPutHost(p, n, bound)
    \/ \E p \in Proc : Step(p)
    \/ Tick

Spec == Init /\ [][Next]_vars

\* The Go scheduler runs every runnable goroutine, and sync.Mutex (starvation
\* mode) lets no goroutine wait for the lock forever.
FairSpec == Spec /\ \A p \in Proc : SF_vars(Step(p))

\* ------------------------------------------------------------- the claims

\* Goroutine p is inside cs.Get.
InGet(p) == pc[p] \in {"lockwait", "create", "select", "default", "factory", "waitreq"}

\* Goroutine p is in the body of getHostState or putHost, past its cs.Get.
InBody(p) == pc[p] \in {"chassis", "policy", "power", "defer"}

\* The goroutines whose handle is a session of n, and those a Put has handed
\* a session of n that they have not received yet.
Holders(n) == {p \in Proc : handle[p] # NoHandle /\ handle[p].name = n}

InTransit(n) == {p \in Proc : req[p] # NoConn /\ target[p] = n}

\* x stands before y in the order in which the goroutines began to wait.
Before(x, y) ==
    \E i, j \in 1..Len(waitOrder) : i < j /\ waitOrder[i] = x /\ waitOrder[j] = y

\* C1: for every name, the sessions checked out (held by a handle or handed to
\* a waiting caller) plus the idle sessions of its pool are at most MaxCap,
\* and no two goroutines hold a session of the same name at once.
C1_AtMostCapacity ==
    /\ \A n \in Name :
           Cardinality(Holders(n)) + Cardinality(InTransit(n)) + Len(conns[n]) <= MaxCap
    /\ \A p, q \in Proc :
           p # q /\ handle[p] # NoHandle /\ handle[q] # NoHandle
               => handle[p].name # handle[q].name

\* C1 witness: a goroutine holds the session of a host while another waits
\* in that host's pool for it.
C1_Witness ==
    \E p, q \in Proc :
        /\ p # q
        /\ handle[p] # NoHandle
        /\ pc[q] = "waitreq"
        /\ target[q] = handle[p].name

\* C2: acquisitions for two different names never block each other: nobody
\* waits for the registry lock while its holder is inside the factory call,
\* or waiting for a release, of another name.
C2_OtherTargetsNotBlocked ==
    \A p, q \in Proc :
        pc[p] \in {"factory", "waitreq"} /\ mu = p /\ pc[q] = "lockwait"
            => target[q] = target[p]

\* C3: for a name that is not configured no factory is ever invoked and no
\* pool is ever created.
C3_UnknownTargetNoFactory ==
    \A n \in Name \ Host : n \notin factoryCalled /\ pools[n] = 0

\* C4: a caller blocked in the pool of a host is blocked only while another
\* caller holds that host's session: the Put of the holder unblocks it.
C4_PutUnblocksWaiter ==
    \A q \in Proc :
        pc[q] = "waitreq" /\ req[q] = NoConn => Holders(target[q]) # {}

\* C5: a session the pool evicts is closed.
C5_EvictedIsClosed == dropped # 0 => dropped \notin connected

\* C6: the registry holds at most one pool per name: one pool is created per
\* name, it is the one registered, and every cs.Get in progress and every
\* handle returned uses it.
C6_OnePoolPerName ==
    /\ \A n \in Name : created[n] <= 1 /\ pools[n] = created[n]
    /\ \A p \in Proc :
           pc[p] \in {"select", "default", "factory", "waitreq"}
               => lp[p] # 0 /\ lp[p] = pools[target[p]]
    /\ \A p \in Proc :
           handle[p] # NoHandle => handle[p].gen # 0 /\ handle[p].gen = pools[handle[p].name]

\* C6 witness: two requests are in cs.Get for the same name, not seen before;
\* one is about to create its pool, the other waits for the lock.
C6_Witness ==
    \E p, q \in Proc :
        /\ pc[p] = "create"
        /\ pc[q] = "lockwait"
        /\ target[q] = target[p]
        /\ created[target[p]] = 0

\* C7: a cs.Get that waits in a pool at capacity returns within the acquire
\* window: no caller stays blocked on its request for longer.
C7_BoundedWait == \A p \in Proc : pc[p] = "waitreq" => waitAge[p] <= AcquireWindow

\* C8: a handler holds a handle exactly while it is in its body: every exit
\* path has released it, no Put follows a failed Get, and a held session is
\* not in its pool as well (it was released once, not twice).
C8_ReleasedOnEveryExit ==
    /\ \A p \in Proc : InBody(p) <=> handle[p] # NoHandle
    /\ \A p \in Proc, n \in Name, i \in 1..MaxIdle :
           handle[p] # NoHandle /\ i <= Len(conns[n]) => conns[n][i].conn # handle[p].client
    /\ \A p, q \in Proc : handle[p] # NoHandle => req[q].conn # handle[p].client
    /\ \A n \in Name, i \in 1..MaxIdle : i <= Len(conns[n]) => conns[n][i].conn # 0
    /\ \A n \in Name :
           pools[n] # 0 /\ pmu[n] = NoProc =>
               openingConns[n] = Cardinality(Holders(n)) + Cardinality(InTransit(n))
                                 + Len(conns[n])

\* C8 witness: every handler has returned and a session that one of them
\* acquired is back in its pool.
C8_Witness ==
    /\ \A p \in Proc : pc[p] \in {"idle", "loop"}
    /\ \E n \in Host : Len(conns[n]) = 1

\* C9: per pool the waiting callers are served in the order in which they
\* began to wait: a caller that gets a handle has no caller of the same name
\* before it in that order.
C9_Fifo ==
    [][\A y \in Proc :
           handle[y] = NoHandle /\ handle'[y] # NoHandle
               => ~ \E x \in Proc : Before(x, y) /\ target[x] = target[y]]_vars

\* C10: the system is deadlock-free: while a request is inside cs.Get some
\* goroutine can take a step.
C10_DeadlockFree ==
    (\E p \in Proc : InGet(p)) => \E q \in Proc : ENABLED Step(q)

\* C10, as progress under fair scheduling: every cs.Get returns.
C10_EveryGetReturns == \A p \in Proc : InGet(p) ~> ~InGet(p)

====
